---- MODULE Spec2Model ----
(***************************************************************************)
(* Model of the Lightware SF40/c serial driver (lightwareSF40.c/.h):       *)
(* the checksum, the packet reader getPacket, the two transaction loops    *)
(* readCommand / writeCommand, the stream decoder getStream and the        *)
(* accessor getName.                                                       *)
(*                                                                         *)
(* A C array of n elements is a sequence of length n: a[i] in the source   *)
(* is a[i + 1] here.  The serial line is a sequence whose elements are     *)
(* bytes (0..255) or a silence (a negative number -n: the device sends     *)
(* nothing for n poll intervals).                                          *)
(***************************************************************************)
EXTENDS Integers, Sequences, FiniteSets, TLC

(***************************************************************************)
(* Program constants                                                       *)
(***************************************************************************)
MAX_RESPONSE_SIZE == 1028
STARTBIT == 170
LIDAR_PRODUCT_NAME == 0
LIDAR_DISTANCE_OUTPUT == 48
LIDAR_SERIAL_NUMBER == 3
LIDAR_USER_DATA == 9
LIDAR_TEMPRATURE == 55
LIDAR_FORWARD_OFFSET == 109
LIDAR_REVOLUTIONS == 110
LIDAR_TOKEN == 10
LIDAR_MOTOR_STATE == 106
LIDAR_DISTANCE == 105
RxCapCommand == 220
RxCapStream == 420
PointCap == 200
TimeoutCycles == 10000
NameLoopMax == 16

(***************************************************************************)
(* Fixed-width integer arithmetic                                          *)
(***************************************************************************)
Pow2(n) == 2 ^ n

U16(x) == x % 65536

U8(x) == x % 256

\* conversion of a 16-bit pattern to int16_t (two's complement)
I16(x) == IF U16(x) >= 32768 THEN U16(x) - 65536 ELSE U16(x)

\* bitwise exclusive or of two 16-bit values, four bits at a time
XorNibble ==
    [a \in 0..15 |-> [b \in 0..15 |->
        LET bit(k) == (((a \div Pow2(k)) % 2) + ((b \div Pow2(k)) % 2)) % 2
        IN  bit(0) + (2 * bit(1)) + (4 * bit(2)) + (8 * bit(3))]]

Xor(a, b) ==
    XorNibble[a % 16][b % 16]
    + (16 * XorNibble[(a \div 16) % 16][(b \div 16) % 16])
    + (256 * XorNibble[(a \div 256) % 16][(b \div 256) % 16])
    + (4096 * XorNibble[(a \div 4096) % 16][(b \div 4096) % 16])

Shl16(x, n) == U16(x * Pow2(n))

Shr(x, n) == x \div Pow2(n)

(***************************************************************************)
(* createCRC: one round of the loop body, then the loop over data[0..size) *)
(***************************************************************************)
CrcByte(crc, b) ==
    LET code1 == Xor(Shr(crc, 8), b)
        code2 == Xor(code1, Shr(code1, 4))
        crc1  == Xor(Shl16(crc, 8), code2)
        code3 == Shl16(code2, 5)
        crc2  == Xor(crc1, code3)
        code4 == Shl16(code3, 7)
    IN  Xor(crc2, code4)

\* the loop over i in lo..hi-1, split in halves (the first half is computed
\* before the second starts) to keep the evaluation shallow
RECURSIVE CrcLoop(_, _, _, _)
CrcLoop(crc, data, lo, hi) ==
    IF hi <= lo THEN crc
    ELSE IF hi = lo + 1 THEN CrcByte(crc, data[lo + 1])
    ELSE LET mid   == (lo + hi) \div 2
             first == CrcLoop(crc, data, lo, mid)
         IN  IF first >= 0 THEN CrcLoop(first, data, mid, hi) ELSE 0

createCRC(data, size) == CrcLoop(0, data, 0, size)

Min(a, b) == IF a < b THEN a ELSE b

\* an array of n elements, all g
Fill(n, g) == SubSeq([i \in 1..n |-> g], 1, n)

Zeros(n) == Fill(n, 0)

(***************************************************************************)
(* flag_t: the 16-bit header word sr shares storage with the bit-fields    *)
(* rw:1, :5, pay_len:10.  The compiler of the target (GCC, little-endian)  *)
(* allocates bit-fields from the least significant bit: rw is bit 0, the   *)
(* unnamed field bits 1..5 and pay_len bits 6..15.                         *)
(***************************************************************************)
HeaderRw(sr) == sr % 2

HeaderReserved(sr) == (sr \div 2) % 32

\* pay_len taken from the ten least significant bits instead
HeaderPayLenLow(sr) == sr % 1024

HeaderPayLen(sr) == (sr \div 64) % 1024

\* sr after the assignments header.pay_len = len; header.rw = rw to a flag_t
\* whose unnamed bits hold resv (the object is not initialised)
HeaderSr(rw, resv, len) == (rw % 2) + (2 * (resv % 32)) + (64 * (len % 1024))

(***************************************************************************)
(* The serial line.  readByte blocks until a byte arrives, so inside       *)
(* getPacket a silence only delays; canReadByte is true when the next      *)
(* element of the line is a byte.                                          *)
(***************************************************************************)
IsByte(x) == x >= 0

LineBytes(ln) == SelectSeq(ln, IsByte)

canReadByte(ln) == Len(ln) > 0 /\ IsByte(Head(ln))

\* position in ln of its n-th byte (n >= 1, ln has that many bytes): the
\* least p with p = n + number of silences in ln[1..p]
RECURSIVE NthBytePos(_, _, _)
NthBytePos(ln, n, p) ==
    LET q == n + (p - Len(LineBytes(SubSeq(ln, 1, p))))
    IN  IF q = p THEN p ELSE NthBytePos(ln, n, q)

\* the line after n bytes were read from it (n <= number of bytes in ln)
AfterRead(ln, n) ==
    IF n = 0 THEN ln ELSE SubSeq(ln, NthBytePos(ln, n, n) + 1, Len(ln))

\* k poll intervals pass on a line that has no byte ready for that long
Elapse(ln, k) ==
    IF Len(ln) = 0 THEN ln
    ELSE IF Head(ln) + k < 0 THEN <<Head(ln) + k>> \o Tail(ln)
    ELSE Tail(ln)

(***************************************************************************)
(* getPacket(payload) reading from line ln into the caller's array buf0 of *)
(* cap elements.  Result:                                                  *)
(*   blocked  a readByte never returns (the line ends inside the packet)   *)
(*   ret      the return value                                             *)
(*   used     number of bytes taken from the line                          *)
(*   stored   number of payload[] elements written (indices 0..stored-1)   *)
(*   buf      the caller's array afterwards (the elements inside it)       *)
(* A store at an index >= cap is outside the caller's array: stored > cap. *)
(* bs is the line's bytes: payload[i] after the stores is bs[i + 1].       *)
(***************************************************************************)
StoreInto(buf0, cap, bs, n) ==
    SubSeq(bs, 1, Min(n, cap)) \o SubSeq(buf0, Min(n, cap) + 1, cap)

\* every byte that has arrived taken from the line, whatever the result
PacketResultAll(blocked, ret, n, buf0, cap, bs) ==
    [blocked |-> blocked, ret |-> ret, used |-> Len(bs), stored |-> n,
     buf |-> StoreInto(buf0, cap, bs, n)]

PacketResult(blocked, ret, n, buf0, cap, bs) ==
    [blocked |-> blocked, ret |-> ret, used |-> n, stored |-> n,
     buf |-> StoreInto(buf0, cap, bs, n)]

\* the comparison left out: every packet passes
PacketCheckSkipped(bs, pay_len) == pay_len

PacketCheck(bs, pay_len) ==
    LET crc == bs[pay_len + 4] + (256 * bs[pay_len + 5])
    IN  IF crc = createCRC(bs, 3 + pay_len) THEN pay_len ELSE -3

getPacketBytes(bs, n, buf0, cap) ==
    IF n < 3 THEN PacketResult(TRUE, 0, n, buf0, cap, bs)
    ELSE LET sr      == bs[2] + (256 * bs[3])
             pay_len == HeaderPayLen(sr)
         IN  IF bs[1] # STARTBIT
             THEN PacketResult(FALSE, -1, 3, buf0, cap, bs)
             ELSE IF pay_len < 1 \/ pay_len > MAX_RESPONSE_SIZE - 5
             THEN PacketResult(FALSE, -2, 3, buf0, cap, bs)
             ELSE IF n < pay_len + 5
             THEN PacketResult(TRUE, 0, n, buf0, cap, bs)
             ELSE PacketResult(FALSE, PacketCheck(bs, pay_len), pay_len + 5,
                               buf0, cap, bs)

getPacket(ln, buf0, cap) ==
    getPacketBytes(LineBytes(ln), Len(LineBytes(ln)), buf0, cap)

(***************************************************************************)
(* The request frames built by readCommand and writeCommand.               *)
(***************************************************************************)
WithCrc(body) ==
    LET crc == createCRC(body, Len(body))
    IN  body \o <<U8(crc), U8(Shr(crc, 8))>>

readPacket(command, resv) ==
    LET sr == HeaderSr(0, resv, 1)
    IN  WithCrc(<<STARTBIT, U8(sr), U8(Shr(sr, 8)), command>>)

writePacket(command, data, resv) ==
    LET sr == HeaderSr(1, resv, 1 + Len(data))
    IN  WithCrc(<<STARTBIT, U8(sr), U8(Shr(sr, 8)), command>> \o data)

(***************************************************************************)
(* getName's loop over payload[4..]: the index i at which the loop ends    *)
(* (16 when no NUL was found) and the caller's name[] afterwards           *)
(* (-1 marks an element never written).                                    *)
(***************************************************************************)
NameStop(payload) ==
    IF \E i \in 0..(NameLoopMax - 1) : payload[i + 5] = 0
    THEN CHOOSE i \in 0..(NameLoopMax - 1) :
            /\ payload[i + 5] = 0
            /\ \A j \in 0..(i - 1) : payload[j + 5] # 0
    ELSE NameLoopMax

NameAfter(name0, payload) ==
    LET stop == NameStop(payload)
    IN  [k \in 1..Len(name0) |->
            IF k - 1 = stop + 4 THEN 0
            ELSE IF k - 1 <= stop /\ k - 1 < NameLoopMax THEN payload[k + 4]
            ELSE name0[k]]

\* the C string held by a char array: the bytes before the first NUL
CString(a) ==
    IF \E k \in 1..Len(a) : a[k] = 0
    THEN SubSeq(a, 1, (CHOOSE k \in 1..Len(a) :
                          a[k] = 0 /\ \A j \in 1..(k - 1) : a[j] # 0) - 1)
    ELSE a

(***************************************************************************)
(* getStream's decoding of its array payload[] (after getPacket).          *)
(***************************************************************************)
\* payload[k] | payload[k+1] << 8
Le16(a, k) == a[k + 1] + (256 * a[k + 2])

StreamPointCount(payload) == Le16(payload, 14)

StreamFields(payload) ==
    [alarmState      |-> payload[5],
     pps             |-> Le16(payload, 5),
     forwardOffset   |-> I16(Le16(payload, 7)),
     motorVoltage    |-> I16(Le16(payload, 9)),
     revolutionIndex |-> payload[12],
     pointTotal      |-> Le16(payload, 12),
     pointCount      |-> Le16(payload, 14),
     pointStartIndex |-> Le16(payload, 16)]

\* pointDistances[] after the copy loop (the elements inside the array)
StreamDistances(dist0, payload) ==
    [k \in 1..PointCap |->
        IF k - 1 < StreamPointCount(payload)
        THEN I16(Le16(payload, ((k - 1) * 2) + 18))
        ELSE dist0[k]]

\* the copy loop reads payload[(i*2)+19] for i < pointCount
StreamReadsOutside(payload) ==
    StreamPointCount(payload) > 0
    /\ ((StreamPointCount(payload) - 1) * 2) + 19 >= RxCapStream

\* and writes pointDistances[i] for i < pointCount
StreamWritesOutside(payload) == StreamPointCount(payload) > PointCap

(***************************************************************************)
(* The device side of the line: frames in the wire format getPacket reads, *)
(* and the lines (what the device sends, and when) the model starts from.  *)
(***************************************************************************)
DeviceFrame(rw, resv, command, data) ==
    LET sr == HeaderSr(rw, resv, 1 + Len(data))
    IN  WithCrc(<<STARTBIT, U8(sr), U8(Shr(sr, 8)), command>> \o data)

\* the same frame with its last checksum byte altered
BadCrcFrame(command, data) ==
    LET f == DeviceFrame(0, 0, command, data)
    IN  SubSeq(f, 1, Len(f) - 1) \o <<U8(f[Len(f)] + 1)>>

\* byte k (1-based) of frame f with bit b flipped
FlipBit(f, k, b) ==
    SubSeq(f, 1, k - 1)
    \o <<IF (f[k] \div Pow2(b)) % 2 = 1 THEN f[k] - Pow2(b) ELSE f[k] + Pow2(b)>>
    \o SubSeq(f, k + 1, Len(f))

LeBytes(v) == <<U8(U16(v)), U8(Shr(U16(v), 8))>>

\* the samples as consecutive little-endian 16-bit values
SampleBytes(samples) ==
    SubSeq([i \in 1..(2 * Len(samples)) |->
               LeBytes(samples[(i + 1) \div 2])[2 - (i % 2)]],
           1, 2 * Len(samples))

\* the payload of a distance-output frame (after the command id)
StreamData(alarm, pps, fwd, volt, rev, total, count, start, samples) ==
    <<alarm>> \o LeBytes(pps) \o LeBytes(fwd) \o LeBytes(volt) \o <<rev>>
    \o LeBytes(total) \o LeBytes(count) \o LeBytes(start) \o SampleBytes(samples)

StreamFrame(total, count, start, samples) ==
    DeviceFrame(0, 0, LIDAR_DISTANCE_OUTPUT,
                StreamData(129, 20010, -5, 4700, 9, total, count, start, samples))

Ramp(n) == SubSeq([i \in 1..n |-> (i * 7) % 256], 1, n)

RampSamples(n) == SubSeq([i \in 1..n |-> (i * 37) - 1000], 1, n)

\* a silence of n poll intervals (none when n = 0)
Silence(n) == IF n = 0 THEN <<>> ELSE <<0 - n>>

MaxGap == 1

Gaps == {Silence(n) : n \in 0..MaxGap}

\* command ids the model requests, and ids of the frames the device sends
Commands == {LIDAR_PRODUCT_NAME, LIDAR_DISTANCE, 255}

FrameIds == {LIDAR_PRODUCT_NAME, LIDAR_DISTANCE, LIDAR_DISTANCE_OUTPUT}

ReplyData == <<1, 2>>

Reply(c) == DeviceFrame(0, 0, c, ReplyData)

\* the ProductName answer: "SF40" and a NUL
NameData == <<83, 70, 52, 48, 0>>

NameFrame == DeviceFrame(0, 0, LIDAR_PRODUCT_NAME, NameData)

\* the same answer with 5 in the low bits of the header word
NameFrameLowBits ==
    WithCrc(<<STARTBIT, 5, 0, LIDAR_PRODUCT_NAME>> \o NameData)

\* payloads handed to writeCommand
WriteData ==
    {<<>>, <<3, 0, 0, 0>>, Ramp(RxCapCommand - 6), Ramp(RxCapCommand - 5),
     Ramp(MAX_RESPONSE_SIZE - 6)}

\* the payloads tried against a scripted device, and against a line that
\* returns what was sent
ShortWriteData == {<<>>, <<3, 0, 0, 0>>}

WriteChoices(dev) == IF dev = "loopback" THEN WriteData ELSE ShortWriteData

\* values of memory that was never initialised
UninitBytes == {0, 255}

UninitBits == {0, 31}

\* the frames writeCommand builds from the model's arguments
WritePackets ==
    [c \in Commands, d \in WriteData, v \in UninitBits |-> writePacket(c, d, v)]

PlainLines ==
    {<<>>}
    \cup {g \o Reply(c) : g \in Gaps, c \in FrameIds}
    \cup {Reply(a) \o g \o Reply(c) : a \in FrameIds, c \in FrameIds, g \in Gaps}

\* runs of bytes that belong to no frame
Garbage == {<<85>>, <<85, 1, 2>>}

BadLines ==
    {BadCrcFrame(c, ReplyData) \o g \o Reply(c) : c \in FrameIds, g \in Gaps}
    \cup {junk \o Reply(c) : junk \in Garbage, c \in FrameIds}
    \cup {<<STARTBIT, 0, 0>> \o Reply(c) : c \in FrameIds}
    \cup {<<STARTBIT, 64>>, <<STARTBIT, 128, 0, 105, 1>>}

\* the frames whose corruption is tried
SampleFrames ==
    {NameFrame, Reply(LIDAR_DISTANCE), DeviceFrame(1, 0, 255, <<>>),
     StreamFrame(3, 3, 0, <<150, -1, 9999>>)}

\* every single-bit flip in the command id and data bytes of the sample frames
Flips(f) == {FlipBit(f, k, b) : k \in 4..(Len(f) - 2), b \in 0..7}

FlipLines == UNION {Flips(f) : f \in SampleFrames}

\* frames as long as, and longer than, the arrays that receive them
LongLines ==
    {DeviceFrame(0, 0, LIDAR_DISTANCE, Ramp(n - 1)) :
        n \in {RxCapCommand - 5, RxCapCommand - 4, MAX_RESPONSE_SIZE - 5}}
    \cup {DeviceFrame(0, 0, LIDAR_DISTANCE_OUTPUT, Ramp(n - 1)) :
        n \in {RxCapStream - 5, RxCapStream - 4}}

StreamLines ==
    {StreamFrame(640, 3, 17, <<150, -1, 9999>>),
     StreamFrame(3, 3, 0, <<150, -1, 9999>>),
     StreamFrame(200, 0, 0, <<>>),
     StreamFrame(640, PointCap, 400, RampSamples(PointCap)),
     StreamFrame(640, PointCap + 1, 0, <<>>),
     StreamFrame(640, PointCap + 1, 0, RampSamples(PointCap + 1)),
     StreamFrame(640, 5, 0, <<150, -1>>),
     StreamFrame(640, 65535, 0, <<1>>)}

\* the Distance answer: average, closest and furthest distance, the angle and
\* the calculation time t (four bytes, least significant first)
DistanceData(t) ==
    LeBytes(250) \o LeBytes(120) \o LeBytes(400) \o LeBytes(-450) \o t

DistanceFrame(t) == DeviceFrame(0, 0, LIDAR_DISTANCE, DistanceData(t))

TimeSamples == {<<0, 0, 0, 0>>, <<1, 0, 0, 0>>, <<16, 39, 0, 0>>}

\* the device acknowledges the write, then answers the read; or only answers
DistanceLines ==
    {Reply(LIDAR_DISTANCE) \o g \o DistanceFrame(t) : g \in Gaps, t \in TimeSamples}
    \cup {DistanceFrame(t) : t \in TimeSamples}

\* the writeDistance_t handed to getDistance: direction 0, width 90,
\* minimumDistance 10
DistanceSettings == <<0, 0, 90, 0, 10, 0>>

NameLines ==
    {g \o NameFrame : g \in Gaps} \cup {g \o NameFrameLowBits : g \in Gaps}

\* the answers to the Token and MotorState requests
StateLines ==
    {g \o Reply(c) : g \in Gaps, c \in {LIDAR_TOKEN, LIDAR_MOTOR_STATE}}

Lines ==
    PlainLines \cup BadLines \cup FlipLines \cup LongLines \cup StreamLines
    \cup NameLines \cup DistanceLines \cup StateLines

\* bytes already in the receive buffer of the serial driver before a call
StaleBytes == {Reply(LIDAR_DISTANCE)}

\* the sizes of the arrays the accessors hand to readCommand (checkAlarm's
\* and getName's)
PayloadCaps == {7, 22}

NameCap == 24

(***************************************************************************)
(* State                                                                   *)
(***************************************************************************)
VARIABLES
    pc,               \* "idle", "poll" (in a transaction loop), "done",
                      \* "blocked" (inside a readByte that never returns),
                      \* "crashed" (after a store or load outside an array)
    op,               \* the function called
    command,          \* its command argument
    sent,             \* the bytes handed to sendByte, in order
    device,           \* "script": the device sends line; "loopback": the
                      \* line returns every byte sent
    rxbuf,            \* bytes in the driver's receive buffer before the call
    line,             \* what arrives from now on
    cycles_Waited,    \* the loop counter of readCommand / writeCommand
    receivedPayload,  \* the receive array of the loop's last iteration
    receivedLenght,   \* readCommand's receivedLenght (uint16_t)
    attempt,          \* the bytes the last getPacket call took from the line
    pktRet,           \* what that getPacket call returned (0: none was made,
                      \* or it has not returned)
    stored,           \* how many array elements that call wrote
    dataSeen,         \* canReadByte has been true during this call
    result,           \* the value the called function returned
    payload,          \* the caller's array given to readCommand
    copied,           \* how many elements readCommand's copy loop wrote
    name,             \* getName's output array
    accOut,           \* what another accessor returned, or stored through
                      \* its pointer argument
    buffered,         \* rxbuf as it was when the function was called
    arriving,         \* line as it was when the function was called
    streamPayload,    \* getStream's array payload[420]
    outputData,       \* getStream's *outputData (without the samples)
    pointDistances,   \* outputData->pointDistances
    distStores        \* how many samples getStream's copy loop wrote

vars == <<pc, op, command, sent, device, rxbuf, line, cycles_Waited,
          receivedPayload, receivedLenght, attempt, pktRet, stored, dataSeen,
          result, payload, copied, name, accOut, buffered, arriving,
          streamPayload, outputData, pointDistances, distStores>>

\* uint8_t receivedPayload[220] = {0}
ZeroPayload == Zeros(RxCapCommand)

NoOutput ==
    [alarmState |-> 0, pps |-> 0, forwardOffset |-> 0, motorVoltage |-> 0,
     revolutionIndex |-> 0, pointTotal |-> 0, pointCount |-> 0,
     pointStartIndex |-> 0]

\* what the environment may be when the first call is made
Environments ==
    {<<"script", <<>>, ln>> : ln \in Lines}
    \cup {<<"script", st, ln>> : st \in StaleBytes, ln \in PlainLines}
    \cup {<<"loopback", <<>>, <<>>>>}

\* the state after setupLidar: nothing requested yet
Init ==
    /\ pc = "idle"
    /\ op = "none"
    /\ command = 0
    /\ sent = <<>>
    /\ \E e \in Environments : device = e[1] /\ rxbuf = e[2] /\ line = e[3]
    /\ cycles_Waited = 0
    /\ receivedPayload = ZeroPayload
    /\ receivedLenght = 0
    /\ attempt = <<>>
    /\ pktRet = 0
    /\ stored = 0
    /\ dataSeen = FALSE
    /\ result = 0
    /\ payload = <<>>
    /\ copied = 0
    /\ name = Fill(NameCap, -1)
    /\ accOut = <<>>
    /\ buffered = <<>>
    /\ arriving = <<>>
    /\ streamPayload = Zeros(RxCapStream)
    /\ outputData = NoOutput
    /\ pointDistances = Zeros(PointCap)
    /\ distStores = 0

\* a store or load outside an array: the run goes on as if the memory were
\* there, or the process dies
Outcomes(outside) == IF outside THEN {"goes on", "dies"} ELSE {"goes on"}

\* what a getPacket call with result r hands back to its caller
Returned(r, outcome) == IF outcome = "dies" THEN 0 ELSE r.ret

\* the line once the bytes of frame have been sent
LineAfterSend(ln, frame) == IF device = "loopback" THEN ln \o frame ELSE ln

(***************************************************************************)
(* readCommand up to its loop (flush, build and send the request); getName *)
(* is readCommand(LIDAR_PRODUCT_NAME, payload) on a 22-byte array.         *)
(***************************************************************************)
readCommandSend(c, resv) ==
    /\ command' = c
    /\ sent' = readPacket(c, resv)
    /\ rxbuf' = <<>>
    /\ buffered' = rxbuf
    /\ arriving' = line
    /\ line' = LineAfterSend(line, readPacket(c, resv))
    /\ cycles_Waited' = 0
    /\ dataSeen' = FALSE
    /\ pc' = "poll"
    /\ UNCHANGED <<device, receivedPayload, receivedLenght, attempt, pktRet,
                   stored, result, copied, name, accOut, streamPayload,
                   outputData, pointDistances, distStores>>

readCommandCall ==
    /\ pc = "idle"
    /\ \E c \in Commands, resv \in UninitBits, cap \in PayloadCaps :
          /\ op' = "readCommand"
          /\ payload' = Zeros(cap)
          /\ readCommandSend(c, resv)

getNameCall ==
    /\ pc = "idle"
    /\ \E resv \in UninitBits, g \in UninitBytes :
          /\ op' = "getName"
          /\ payload' = Fill(22, g)
          /\ readCommandSend(LIDAR_PRODUCT_NAME, resv)

(***************************************************************************)
(* The accessors that call readCommand with an array of their own (not     *)
(* initialised) and decode it: the command id each one passes, the size of *)
(* its array, and what it makes of the array afterwards.                   *)
(***************************************************************************)
Accessors ==
    {"getUserData", "getRevolutions", "getOffset", "getToken", "getMotorState"}

ReadOps == {"readCommand", "getName", "getDistance"} \cup Accessors

AccessorCommand ==
    [getUserData    |-> LIDAR_SERIAL_NUMBER,
     getRevolutions |-> LIDAR_TEMPRATURE,
     getOffset      |-> LIDAR_DISTANCE,
     getToken       |-> LIDAR_TOKEN,
     getMotorState  |-> LIDAR_MOTOR_STATE]

AccessorCap ==
    [getUserData |-> 22, getRevolutions |-> 10, getOffset |-> 8,
     getToken |-> 8, getMotorState |-> 7]

\* the caller's array handed to getUserData (16 bytes of user data)
UserDataCap == 16

\* getUserData: data[i] = payload[i+4] for i < (uint8_t)readCommand(...)
\* (-1 marks an element never written)
UserDataAfter(pl, res) ==
    [k \in 1..UserDataCap |-> IF k - 1 < U8(res) THEN pl[k + 4] ELSE -1]

\* a || b || c || d on four unsigned values
LogicalOr4(a, b, c, d) == IF a # 0 \/ b # 0 \/ c # 0 \/ d # 0 THEN 1 ELSE 0

\* getRevolutions: payload[7]<<24 || payload[6]<<16 || payload[5]<<8
\* || payload[4]; a byte shifted left within 32 bits is 0 only if it is 0
RevolutionsOf(pl) == LogicalOr4(pl[8], pl[7], pl[6], pl[5])

\* getOffset: (int16_t)((payload[5] << 8) | payload[4])
OffsetOf(pl) == I16(Le16(pl, 4))

\* getToken: payload[4] + ((uint16_t)payload[5] << 8)
TokenOf(pl) == U16(Le16(pl, 4))

\* getMotorState: (motorState_t)payload[4]
MotorStateOf(pl) == pl[5]

\* getDistance's calculationTime: (payload[15]<<24 | payload[14]<<16) ||
\* (payload[13]<<8 | payload[12]); each side is zero when both its bytes are
DistanceTimeOf(pl) == LogicalOr4(pl[16], pl[15], pl[14], pl[13])

DistanceOf(pl) ==
    [averageDistance  |-> I16(Le16(pl, 4)),
     closestDistance  |-> I16(Le16(pl, 6)),
     furthestDistance |-> I16(Le16(pl, 8)),
     angle            |-> I16(Le16(pl, 10)),
     calculationTime  |-> DistanceTimeOf(pl)]

accessorCall ==
    /\ pc = "idle"
    /\ \E a \in Accessors, resv \in UninitBits, g \in UninitBytes :
          /\ op' = a
          /\ payload' = Fill(AccessorCap[a], g)
          /\ readCommandSend(AccessorCommand[a], resv)

(***************************************************************************)
(* writeCommand up to its loop: no flush, so buffered bytes stay readable. *)
(***************************************************************************)
writeCommandCall ==
    /\ pc = "idle"
    /\ \E c \in Commands, data \in WriteChoices(device), resv \in UninitBits :
          /\ op' = "writeCommand"
          /\ command' = c
          /\ sent' = WritePackets[c, data, resv]
          /\ line' = LineAfterSend(rxbuf \o line, WritePackets[c, data, resv])
    /\ rxbuf' = <<>>
    /\ buffered' = rxbuf
    /\ arriving' = line
    /\ cycles_Waited' = 0
    /\ dataSeen' = FALSE
    /\ pc' = "poll"
    /\ UNCHANGED <<device, receivedPayload, receivedLenght, attempt, pktRet,
                   stored, result, payload, copied, name, accOut,
                   streamPayload, outputData, pointDistances, distStores>>

(***************************************************************************)
(* One iteration of the loop: the array is zeroed, getPacket runs when a   *)
(* byte is ready.                                                          *)
(***************************************************************************)
PollPacket(ln) ==
    IF canReadByte(ln)
    THEN getPacket(ln, ZeroPayload, RxCapCommand)
    ELSE [blocked |-> FALSE, ret |-> 0, used |-> 0, stored |-> 0,
          buf |-> ZeroPayload]

\* The iterations of the loop taken in one step: one, or, while no byte is
\* ready and the zeroed array cannot match the command id, all the
\* iterations up to the next byte or to the one that returns -1 (cw is
\* cycles_Waited, id the command id compared with receivedPayload[3]).
IdleRun(ln, cw, id) ==
    IF canReadByte(ln) \/ id = 0 THEN 1
    ELSE IF Len(ln) = 0 THEN (TimeoutCycles + 1) - cw
    ELSE Min(0 - Head(ln), (TimeoutCycles + 1) - cw)

\* the line after k iterations, the last with getPacket result r
PollLine(ln, r, k) ==
    IF canReadByte(ln) THEN AfterRead(ln, r.used) ELSE Elapse(ln, k)

\* the bytes a getPacket call with result r took from line ln
Taken(ln, r) == SubSeq(LineBytes(ln), 1, r.used)

\* what the caller does when readCommand has returned res with pl in the
\* caller's array
AccessorDecode(pl, res) ==
    /\ name' = IF op = "getName" THEN NameAfter(name, pl) ELSE name
    /\ accOut' = CASE op = "getUserData"    -> UserDataAfter(pl, res)
                  [] op = "getRevolutions" -> RevolutionsOf(pl)
                  [] op = "getOffset"      -> OffsetOf(pl)
                  [] op = "getDistance"    -> DistanceOf(pl)
                  [] op = "getToken"       -> TokenOf(pl)
                  [] op = "getMotorState"  -> MotorStateOf(pl)
                  [] OTHER                 -> accOut

\* the caller's loads and stores outside its arrays
AccessorOutside(res) == op = "getUserData" /\ U8(res) > UserDataCap

AccessorReturn(pl, res) ==
    /\ AccessorDecode(pl, res)
    /\ \E o3 \in Outcomes(AccessorOutside(res)) :
          pc' = IF o3 = "dies" THEN "crashed" ELSE "done"

\* readCommand's copy loop: payload[i] = receivedPayload[i] for i < n
CopyOut(pl, buf, n) ==
    SubSeq(buf, 1, Min(n, Len(pl))) \o SubSeq(pl, Min(n, Len(pl)) + 1, Len(pl))

readCommandPoll ==
    /\ pc = "poll"
    /\ op \in ReadOps
    /\ cycles_Waited' = cycles_Waited + IdleRun(line, cycles_Waited, sent[4])
    /\ UNCHANGED <<op, command, sent, device, rxbuf, buffered, arriving,
                   streamPayload, outputData, pointDistances, distStores>>
    /\ IF cycles_Waited' > TimeoutCycles
       THEN /\ result' = -1
            /\ AccessorReturn(payload, -1)
            /\ UNCHANGED <<line, receivedPayload, receivedLenght, attempt,
                           pktRet, stored, dataSeen, payload, copied>>
       ELSE \E r \in {PollPacket(line)} :
            /\ line' = PollLine(line, r, cycles_Waited' - cycles_Waited)
            /\ attempt' = Taken(line, r)
            /\ stored' = r.stored
            /\ dataSeen' = (dataSeen \/ canReadByte(line))
            /\ IF r.blocked
               THEN /\ pc' = "blocked"
                    /\ pktRet' = 0
                    /\ UNCHANGED <<receivedPayload, receivedLenght, result,
                                   payload, copied, name, accOut>>
               ELSE \E o1 \in Outcomes(r.stored > RxCapCommand) :
                    /\ pktRet' = Returned(r, o1)
                    /\ IF o1 = "dies"
                       THEN /\ pc' = "crashed"
                            /\ UNCHANGED <<receivedPayload, receivedLenght,
                                           result, payload, copied, name,
                                           accOut>>
                       ELSE IF r.buf[4] # sent[4]
                       THEN /\ pc' = "poll"
                            /\ receivedPayload' = ZeroPayload
                            /\ receivedLenght' = 0
                            /\ UNCHANGED <<result, payload, copied, name,
                                           accOut>>
                       ELSE /\ receivedPayload' = r.buf
                            /\ receivedLenght' = U16(r.ret)
                            /\ copied' = U16(r.ret) + 5
                            /\ payload' = CopyOut(payload, r.buf, U16(r.ret) + 5)
                            /\ \E o2 \in Outcomes(U16(r.ret) + 5 > RxCapCommand
                                         \/ U16(r.ret) + 5 > Len(payload)) :
                                 IF o2 = "dies"
                                 THEN /\ pc' = "crashed"
                                      /\ UNCHANGED <<result, name, accOut>>
                                 ELSE /\ result' = I16(U16(r.ret))
                                      /\ AccessorReturn(payload',
                                                        I16(U16(r.ret)))

\* readCommand's loop as a function of the line ln it reads after its flush
\* and of cycles_Waited (cw): the value readCommand returns for command id,
\* "blocked" when a readByte never returns (stores outside the array going
\* on)
RECURSIVE readCommandLoop(_, _, _)
readCommandLoop(id, ln, cw) ==
    LET k == IdleRun(ln, cw, id)
        r == PollPacket(ln)
    IN  IF cw + k > TimeoutCycles THEN -1
        ELSE IF r.blocked THEN "blocked"
        ELSE IF r.buf[4] = id THEN I16(U16(r.ret))
        ELSE readCommandLoop(id, PollLine(ln, r, k), cw + k)

\* where the caller of writeCommand is while the loop runs, and when
\* writeCommand has returned
WritePolling ==
    \/ pc = "poll" /\ op = "writeCommand"
    \/ pc = "wpoll" /\ op = "getDistance"

WriteEnd == IF op = "getDistance" THEN "wdone" ELSE "done"

writeCommandPoll ==
    /\ WritePolling
    /\ cycles_Waited' = cycles_Waited + IdleRun(line, cycles_Waited, command)
    /\ UNCHANGED <<op, command, sent, device, rxbuf, buffered, arriving,
                   receivedLenght, payload, copied, name, accOut,
                   streamPayload, outputData, pointDistances, distStores>>
    /\ IF cycles_Waited' > TimeoutCycles
       THEN /\ result' = -1
            /\ pc' = WriteEnd
            /\ UNCHANGED <<line, receivedPayload, attempt, pktRet, stored,
                           dataSeen>>
       ELSE \E r \in {PollPacket(line)} :
            /\ line' = PollLine(line, r, cycles_Waited' - cycles_Waited)
            /\ attempt' = Taken(line, r)
            /\ stored' = r.stored
            /\ dataSeen' = (dataSeen \/ canReadByte(line))
            /\ IF r.blocked
               THEN /\ pc' = "blocked"
                    /\ pktRet' = 0
                    /\ UNCHANGED <<receivedPayload, result>>
               ELSE \E o1 \in Outcomes(r.stored > RxCapCommand) :
                    /\ pktRet' = Returned(r, o1)
                    /\ IF o1 = "dies"
                       THEN /\ pc' = "crashed"
                            /\ UNCHANGED <<receivedPayload, result>>
                       ELSE IF r.buf[4] # command
                       THEN /\ pc' = pc
                            /\ receivedPayload' = ZeroPayload
                            /\ UNCHANGED result
                       ELSE /\ pc' = WriteEnd
                            /\ receivedPayload' = r.buf
                            /\ result' = 0

(***************************************************************************)
(* getDistance: writeCommand(LIDAR_DISTANCE, &distanceSettings, 6), then    *)
(* readCommand(LIDAR_DISTANCE, payload) on an 18-byte array that is not     *)
(* initialised, then the decoding (AccessorDecode).                         *)
(***************************************************************************)
getDistanceCall ==
    /\ pc = "idle"
    /\ op' = "getDistance"
    /\ command' = LIDAR_DISTANCE
    /\ \E resv \in UninitBits :
          /\ sent' = writePacket(LIDAR_DISTANCE, DistanceSettings, resv)
          /\ line' = LineAfterSend(rxbuf \o line, sent')
    /\ rxbuf' = <<>>
    /\ buffered' = rxbuf
    /\ arriving' = line
    /\ cycles_Waited' = 0
    /\ dataSeen' = FALSE
    /\ pc' = "wpoll"
    /\ UNCHANGED <<device, receivedPayload, receivedLenght, attempt, pktRet,
                   stored, result, payload, copied, name, accOut,
                   streamPayload, outputData, pointDistances, distStores>>

\* the bytes of ln that have arrived: those before its first silence
ReadyBytes(ln) ==
    LET gaps == {p \in 1..Len(ln) : ~IsByte(ln[p])}
    IN  IF gaps = {} THEN Len(ln)
        ELSE (CHOOSE p \in gaps : \A q \in gaps : p <= q) - 1

\* flushBuffer inside a call: the bytes that have arrived are dropped, or
\* they arrive just after the flush and stay
Flushed(ln) == {ln, SubSeq(ln, ReadyBytes(ln) + 1, Len(ln))}

getDistanceRead ==
    /\ pc = "wdone"
    /\ op = "getDistance"
    /\ \E resv \in UninitBits, g \in UninitBytes, ln \in Flushed(line) :
          /\ payload' = Fill(18, g)
          /\ sent' = readPacket(LIDAR_DISTANCE, resv)
          /\ line' = LineAfterSend(ln, sent')
    /\ cycles_Waited' = 0
    /\ dataSeen' = FALSE
    /\ pc' = "poll"
    /\ UNCHANGED <<op, command, device, rxbuf, buffered, arriving,
                   receivedPayload, receivedLenght, attempt, pktRet, stored,
                   result, copied, name, accOut, streamPayload, outputData,
                   pointDistances, distStores>>

(***************************************************************************)
(* getStream: one blocking getPacket into an array that is not             *)
(* initialised, then the decoding.                                         *)
(***************************************************************************)
\* the command id not compared: every accepted packet is decoded
StreamVerdictAnyId(r) == IF r.ret <= 0 THEN -1 ELSE 0

\* the two early returns of getStream (0: it goes on to decode)
StreamVerdict(r) ==
    IF r.ret <= 0 THEN -1
    ELSE IF r.buf[4] # LIDAR_DISTANCE_OUTPUT THEN -2
    ELSE 0

getStreamCall ==
    /\ pc = "idle"
    /\ op' = "getStream"
    /\ rxbuf' = <<>>
    /\ buffered' = rxbuf
    /\ arriving' = line
    /\ UNCHANGED <<command, sent, device, cycles_Waited, receivedPayload,
                   receivedLenght, payload, copied, name, accOut>>
    /\ \E g \in UninitBytes :
       \E r \in {getPacket(rxbuf \o line, Fill(RxCapStream, g), RxCapStream)} :
           /\ line' = AfterRead(rxbuf \o line, r.used)
           /\ attempt' = Taken(rxbuf \o line, r)
           /\ stored' = r.stored
           /\ dataSeen' = (r.used > 0)
           /\ streamPayload' = r.buf
           /\ IF r.blocked
              THEN /\ pc' = "blocked"
                   /\ pktRet' = 0
                   /\ UNCHANGED <<result, outputData, pointDistances, distStores>>
              ELSE \E o1 \in Outcomes(r.stored > RxCapStream) :
                   /\ pktRet' = Returned(r, o1)
                   /\ IF o1 = "dies"
                      THEN /\ pc' = "crashed"
                           /\ UNCHANGED <<result, outputData, pointDistances,
                                          distStores>>
                      ELSE IF StreamVerdict(r) # 0
                      THEN /\ pc' = "done"
                           /\ result' = StreamVerdict(r)
                           /\ UNCHANGED <<outputData, pointDistances, distStores>>
                      ELSE /\ outputData' = StreamFields(r.buf)
                           /\ distStores' = StreamPointCount(r.buf)
                           /\ pointDistances' =
                                 StreamDistances(pointDistances, r.buf)
                           /\ \E o2 \in Outcomes(StreamReadsOutside(r.buf)
                                           \/ StreamWritesOutside(r.buf)) :
                                 IF o2 = "dies"
                                 THEN /\ pc' = "crashed"
                                      /\ UNCHANGED result
                                 ELSE /\ pc' = "done"
                                      /\ result' = 0

Next ==
    \/ readCommandCall
    \/ getNameCall
    \/ accessorCall
    \/ writeCommandCall
    \/ getDistanceCall
    \/ getDistanceRead
    \/ readCommandPoll
    \/ writeCommandPoll
    \/ getStreamCall

Spec == Init /\ [][Next]_vars

(***************************************************************************)
(* Properties                                                              *)
(***************************************************************************)
Transaction == op \in {"readCommand", "getName", "writeCommand"}

\* the loop ended on its cycle count
TimedOut == cycles_Waited > TimeoutCycles

\* the size of the array getPacket was given
Cap == IF op = "getStream" THEN RxCapStream ELSE RxCapCommand

\* the last getPacket call took a whole frame with a matching checksum
ValidFrameTaken == pktRet > 0

\* C1: in readCommand(c) and writeCommand(c), for every c, a frame with
\* another command id never ends the transaction, and a checksum-valid frame
\* with id c ends it successfully: a call that ended before the timeout ended
\* on such a frame, readCommand returning its payload length and
\* writeCommand 0, and a call still polling has not just taken one.
C1_CommandIdCorrelation ==
    Transaction =>
        /\ (pc = "done" /\ ~TimedOut) =>
              /\ ValidFrameTaken
              /\ attempt[4] = command
              /\ result = (IF op = "writeCommand" THEN 0 ELSE pktRet)
        /\ (pc = "poll" /\ ValidFrameTaken) => attempt[4] # command

\* C2: in readCommand and writeCommand an attempt for which getPacket
\* reported -1, -2 or -3 is discarded: no call ends, other than by the
\* timeout, on such an attempt.
C2_BadAttemptsDiscarded ==
    (Transaction /\ pc = "done" /\ ~TimedOut) => pktRet \notin {-1, -2, -3}

\* C3: when canReadByte was false for the whole call, readCommand and
\* writeCommand return -1, after at least the 10000 poll intervals of the
\* budget and at most one more.
C3_SilentLineTimesOut ==
    (Transaction /\ pc = "done" /\ ~dataSeen) =>
        /\ result = -1
        /\ cycles_Waited \in TimeoutCycles..(TimeoutCycles + 1)

\* the classification of a byte stream that holds a whole packet attempt
Classification(bs) ==
    LET pay_len == HeaderPayLen(bs[2] + (256 * bs[3]))
    IN  IF bs[1] # STARTBIT THEN -1
        ELSE IF pay_len < 1 \/ pay_len > MAX_RESPONSE_SIZE - 5 THEN -2
        ELSE IF Le16(bs, pay_len + 3) # createCRC(bs, 3 + pay_len) THEN -3
        ELSE pay_len

\* C4: getPacket returns -1 for a first byte other than 0xAA, else -2 for a
\* payload length outside 1..MAX_RESPONSE_SIZE-5, else -3 for a checksum
\* that differs, else the payload length (so a packet of length
\* MAX_RESPONSE_SIZE-5 is accepted and its length returned).
C4_PacketClassification ==
    (attempt # <<>> /\ pc # "blocked") => pktRet = Classification(attempt)

\* C5: getPacket stores no received byte at or beyond the size of the array
\* its caller supplied (220 in readCommand and writeCommand, 420 in
\* getStream).
C5_StoresInsideBuffer == stored <= Cap

\* C6: getStream checks pointCount against the 200 entries of
\* pointDistances before it copies: it never writes pointDistances[i] for
\* i >= 200, and for a stream frame whose pointCount exceeds 200 it returns
\* an error and copies nothing.
C6_PointCountValidated ==
    /\ distStores <= PointCap
    /\ (/\ op = "getStream"
        /\ pc = "done"
        /\ ValidFrameTaken
        /\ streamPayload[4] = LIDAR_DISTANCE_OUTPUT
        /\ StreamPointCount(streamPayload) > PointCap)
       => (result # 0 /\ distStores = 0)

\* C7: the bytes readCommand or writeCommand transmitted, for every payload
\* length in 1..MAX_RESPONSE_SIZE-5, fed back into getPacket give success
\* with that payload length, and the receiving array holds the same header,
\* command id and payload bytes.
C7_RoundTrip ==
    (device = "loopback" /\ Transaction /\ pc # "poll") =>
        /\ attempt = sent
        /\ pktRet = Len(sent) - 5
        /\ Len(sent) <= Len(receivedPayload)
        /\ SubSeq(receivedPayload, 1, Len(sent)) = sent

\* C8: a valid frame with one bit of one of its command-id or data bytes
\* flipped, its two checksum bytes as they were, makes getPacket return -3:
\* no packet attempt with another outcome was such a frame.
C8_BitFlipDetected ==
    (attempt # <<>> /\ pktRet # -3) => attempt \notin FlipLines

\* getStream took a flipped distance-output frame and refused it
C8_FlipTaken ==
    /\ op = "getStream"
    /\ pc = "done"
    /\ attempt \in Flips(StreamFrame(3, 3, 0, <<150, -1, 9999>>))
    /\ attempt[6] # 20010 % 256
    /\ pktRet = -3
    /\ result = -1

\* C9: when the device answers getName's request with the bytes
\* AA 05 00 00 'S' 'F' '4' '0' 00 and their checksum, getPacket accepts a
\* frame of payload length 5 and getName leaves the string "SF40" in name.
C9_LiteralProductName ==
    (/\ op = "getName"
     /\ pc \notin {"idle", "poll"}
     /\ attempt \o LineBytes(line) = NameFrameLowBits)
    => /\ pc = "done"
       /\ pktRet = 5
       /\ CString(name) = <<83, 70, 52, 48>>

\* byte at payload offset k of a frame (after the start byte, the header
\* word and the command id), and the 16-bit value there
At(frame, k) == frame[k + 5]

At16(frame, k) == At(frame, k) + (256 * At(frame, k + 1))

\* the frame holds the eight fields and as many samples as it announces
WholeStreamFrame(frame) ==
    /\ Len(frame) >= 20
    /\ frame[4] = LIDAR_DISTANCE_OUTPUT
    /\ Len(frame) - 20 >= 2 * At16(frame, 10)

\* C10: for a checksum-valid frame with command id 48 getStream returns 0,
\* sets the eight fields from payload offsets 0, 1, 3, 5, 7, 8, 10 and 12 and
\* pointDistances[0..pointCount-1] from the 16-bit values at offset 14 on.
C10_StreamDecoding ==
    (op = "getStream" /\ ValidFrameTaken /\ WholeStreamFrame(attempt)) =>
        /\ pc = "done"
        /\ result = 0
        /\ outputData =
              [alarmState      |-> At(attempt, 0),
               pps             |-> At16(attempt, 1),
               forwardOffset   |-> I16(At16(attempt, 3)),
               motorVoltage    |-> I16(At16(attempt, 5)),
               revolutionIndex |-> At(attempt, 7),
               pointTotal      |-> At16(attempt, 8),
               pointCount      |-> At16(attempt, 10),
               pointStartIndex |-> At16(attempt, 12)]
        /\ \A i \in 0..(At16(attempt, 10) - 1) :
              /\ i < PointCap
              /\ pointDistances[i + 1] = I16(At16(attempt, 14 + (2 * i)))

\* getStream left *outputData as it was
OutputUntouched ==
    /\ outputData = NoOutput
    /\ pointDistances = Zeros(PointCap)
    /\ distStores = 0

\* C11: getStream returns -2 for a checksum-valid frame whose command id is
\* not 48 and -1 when getPacket reported -1, -2 or -3, in both cases with
\* *outputData unchanged, and it returns 0 only for a checksum-valid frame
\* with command id 48.
C11_StreamFrameType ==
    (op = "getStream" /\ pc = "done") =>
        /\ (ValidFrameTaken /\ attempt[4] # LIDAR_DISTANCE_OUTPUT) =>
              (result = -2 /\ OutputUntouched)
        /\ pktRet \in {-1, -2, -3} => (result = -1 /\ OutputUntouched)
        /\ result = 0 =>
              (ValidFrameTaken /\ attempt[4] = LIDAR_DISTANCE_OUTPUT)

\* getStream read a valid answer to a Distance request and refused it
C11_OtherFrameRefused ==
    /\ op = "getStream"
    /\ pc = "done"
    /\ ValidFrameTaken
    /\ attempt = Reply(LIDAR_DISTANCE)
    /\ result = -2
    /\ OutputUntouched

\* C12: every call of readCommand or writeCommand returns, whatever the
\* serial source does, also when it delivers part of a frame and then stays
\* silent: no call is ever inside a readByte that cannot return (a state the
\* call never leaves, the line having nothing more to deliver).
C12_CallsReturn == Transaction => pc # "blocked"

\* the command id the registry gives to the parameter an accessor is named
\* for
RegistryId ==
    [getName        |-> LIDAR_PRODUCT_NAME,
     getUserData    |-> LIDAR_USER_DATA,
     getRevolutions |-> LIDAR_REVOLUTIONS,
     getOffset      |-> LIDAR_FORWARD_OFFSET]

\* C13: every read accessor sends its request with the command id of the
\* parameter it is named for (getUserData 9, getRevolutions 110, getOffset
\* 109): the command id byte of the frame it sent is that id.
C13_AccessorCommandIds ==
    op \in DOMAIN RegistryId => sent[4] = RegistryId[op]

\* a Distance answer with all twelve bytes of data was accepted by the read
DistanceRead ==
    /\ op = "getDistance"
    /\ pc = "done"
    /\ result >= 0
    /\ ValidFrameTaken
    /\ attempt[4] = LIDAR_DISTANCE
    /\ Len(attempt) = 18

\* C14: after a successful Distance read the four distances are the 16-bit
\* little-endian values at offsets 0, 2, 4 and 6 of the answer's data and
\* calculationTime is the 32-bit little-endian value of the four bytes at
\* offset 8, whatever those bytes are.
C14_DistanceFields ==
    DistanceRead =>
        accOut = [averageDistance  |-> I16(attempt[5] + (256 * attempt[6])),
                  closestDistance  |-> I16(attempt[7] + (256 * attempt[8])),
                  furthestDistance |-> I16(attempt[9] + (256 * attempt[10])),
                  angle            |-> I16(attempt[11] + (256 * attempt[12])),
                  calculationTime  |-> attempt[13] + (256 * attempt[14])
                                       + (65536 * attempt[15])
                                       + (16777216 * attempt[16])]

\* what readCommand returns for the command and the bytes of the writeCommand
\* call that is under way: the buffered bytes are flushed, the arriving ones
\* read
ReadOfSame == readCommandLoop(command, arriving, 0)

ReadSucceeds == ReadOfSame \in Nat

\* C15: writeCommand returns 0 exactly when readCommand returns a result that
\* is not an error for the same command id and the same bytes buffered and
\* arriving (a scripted device: the bytes do not depend on what is sent).
C15_WriteSuccessAsRead ==
    (op = "writeCommand" /\ pc = "done" /\ device = "script")
        => ((result = 0) <=> ReadSucceeds)

\* getPacket has returned after reading a header that follows a start byte
PacketTaken ==
    /\ Len(attempt) >= 3
    /\ attempt[1] = STARTBIT
    /\ pc \notin {"blocked", "crashed"}

\* the header word: frame byte 1 + 256 * frame byte 2
HeaderWord == attempt[2] + (256 * attempt[3])

\* getPacket behaved as with payload length len: the range test, the number
\* of bytes it read and the length it returned
LengthUsed(len) ==
    /\ (pktRet = -2) <=> (len < 1 \/ len > MAX_RESPONSE_SIZE - 5)
    /\ pktRet # -2 => Len(attempt) = len + 5
    /\ pktRet > 0 => pktRet = len

C17_BytesConsumed ==
    (Len(attempt) > 0 /\ pc \notin {"blocked", "crashed"})
        => /\ pktRet \in {-1, -2} => Len(attempt) = 3
           /\ pktRet > 0 => Len(attempt) = pktRet + 5
           /\ pktRet = -3 => Len(attempt) = HeaderPayLen(HeaderWord) + 5
           /\ pktRet \in {-1, -2, -3} \/ pktRet > 0

\* getPacket returned -1 after three bytes and left the bytes behind them
C17_RestLeft ==
    /\ pktRet = -1
    /\ Len(attempt) = 3
    /\ canReadByte(line)
    /\ pc \notin {"blocked", "crashed"}

\* the call was made with nothing buffered and, arriving, a run of garbage
\* followed by the valid answer to its command (an id other than 0, which
\* the zeroed array matches: C1)
AfterGarbage ==
    /\ Transaction
    /\ device = "script"
    /\ command # 0
    /\ buffered = <<>>
    /\ \E junk \in Garbage : arriving = junk \o Reply(command)

\* C18: when a valid frame with the requested command id arrives after a run
\* of garbage bytes (a single stray byte, say), readCommand and writeCommand
\* find the frame and succeed on it: the call does not block on it and ends
\* on that frame, before the timeout.
C18_Resynchronises ==
    AfterGarbage =>
        /\ pc # "blocked"
        /\ pc = "done" =>
              /\ ~TimedOut
              /\ attempt = Reply(command)
              /\ pktRet > 0
              /\ result >= 0

\* C19: when getStream returns 0, the payload length of the frame it decoded
\* is at least 15 + 2 * pointCount: every byte it decoded was received.
C19_StreamLengthCoversPoints ==
    (op = "getStream" /\ pc = "done" /\ result = 0)
        => pktRet >= 15 + (2 * outputData.pointCount)

\* a valid answer to the command of a read call was taken from the line
MatchingResponse ==
    /\ op \in ReadOps
    /\ pc \in {"done", "crashed"}
    /\ attempt # <<>>
    /\ Classification(attempt) \in 1..(MAX_RESPONSE_SIZE - 5)
    /\ Len(attempt) = Classification(attempt) + 5
    /\ attempt[4] = sent[4]

\* C20: readCommand copies payloadLength + 5 bytes to the caller, and for
\* every accessor and every valid matching response that is never more than
\* the accessor's array holds.
C20_CopyFitsCallerArray ==
    MatchingResponse =>
        /\ copied = Classification(attempt) + 5
        /\ copied <= Len(payload)

\* the accessors that return the value decoded at offset 0 of the answer
TypedReads == {"getToken", "getMotorState"}

\* the value the accessor decodes from the frame taken last
ValueInFrame ==
    IF op = "getToken" THEN attempt[5] + (256 * attempt[6]) ELSE attempt[5]

\* C21: a value returned by a typed read accessor is decoded from a
\* checksum-valid response frame with the requested command id; in
\* particular no value is returned from the array's unwritten contents when
\* readCommand ended with the timeout error -1.
C21_ValueFromValidFrame ==
    (op \in TypedReads /\ pc = "done")
        => /\ ~TimedOut
           /\ ValidFrameTaken
           /\ attempt[4] = sent[4]
           /\ accOut = ValueInFrame

\* the header word of the frame sent last
SentHeader == sent[2] + (256 * sent[3])

\* C22: a frame sent by readCommand or writeCommand is determined by the
\* command id, the direction and the payload: its five reserved header bits
\* are 0, so that the header word is the read/write flag plus the payload
\* length (command id and payload bytes) in its ten high bits, and two calls
\* with the same arguments send the same bytes.
C22_FrameDetermined ==
    sent # <<>> =>
        /\ HeaderReserved(SentHeader) = 0
        /\ SentHeader = HeaderRw(SentHeader) + (64 * (Len(sent) - 5))
====
